---- MODULE Spec2Model ----
(***************************************************************************)
(* Model of the Twitch IRC line decoder of go-irc-twitch.                  *)
(*                                                                         *)
(* Two generations of the decoder live in the repository:                  *)
(*   - the dispatch-table decoder (ParseMessage and the parseXxxMessage    *)
(*     functions over an *ircMessage), and                                 *)
(*   - the older decoder of message.go (parseMessage, parseMiddle,         *)
(*     parseTags and the methods of *message).                             *)
(* Both are modelled, operator by operator, over Go strings, which are     *)
(* TLA+ strings here: s[lo:hi] is SubSeq(s, lo+1, hi).  All the inputs are *)
(* ASCII, so a byte offset and a rune offset are the same number.          *)
(***************************************************************************)
EXTENDS Integers, Sequences, FiniteSets, TLC

(***************************************************************************)
(* Go's strings and strconv packages, as far as the decoder uses them.     *)
(***************************************************************************)

\* the control character U+0001 that frames a CTCP ACTION
SOH == ""

Ch(s, i) == SubSeq(s, i, i)

HasPrefix(s, p) == Len(s) >= Len(p) /\ SubSeq(s, 1, Len(p)) = p

HasSuffix(s, p) == Len(s) >= Len(p) /\ SubSeq(s, Len(s) - Len(p) + 1, Len(s)) = p

\* strings.Index, 1-based; 0 when sep does not occur in s
RECURSIVE IndexFrom(_, _, _)
IndexFrom(s, sep, i) ==
    IF i + Len(sep) - 1 > Len(s) THEN 0
    ELSE IF SubSeq(s, i, i + Len(sep) - 1) = sep THEN i
    ELSE IndexFrom(s, sep, i + 1)

Index(s, sep) == IndexFrom(s, sep, 1)

Contains(s, sub) == Index(s, sub) # 0

TrimPrefix(s, p) == IF HasPrefix(s, p) THEN SubSeq(s, Len(p) + 1, Len(s)) ELSE s

\* strings.SplitN for a non-empty sep; n < 0 splits at every sep
RECURSIVE SplitN(_, _, _)
SplitN(s, sep, n) ==
    LET i == Index(s, sep)
    IN  IF n = 1 \/ i = 0
        THEN <<s>>
        ELSE <<SubSeq(s, 1, i - 1)>> \o SplitN(SubSeq(s, i + Len(sep), Len(s)), sep, n - 1)

Split(s, sep) == SplitN(s, sep, -1)

RECURSIVE Join(_, _)
Join(parts, sep) ==
    IF Len(parts) = 0 THEN ""
    ELSE IF Len(parts) = 1 THEN parts[1]
    ELSE parts[1] \o sep \o Join(Tail(parts), sep)

\* strings.Replace(s, old, new, n) for a non-empty old; n < 0 replaces all
RECURSIVE Replace(_, _, _, _)
Replace(s, old, new, n) ==
    LET i == Index(s, old)
    IN  IF n = 0 \/ i = 0
        THEN s
        ELSE SubSeq(s, 1, i - 1) \o new
             \o Replace(SubSeq(s, i + Len(old), Len(s)), old, new, n - 1)

ReplaceAll(s, old, new) == Replace(s, old, new, -1)

\* strings.Count for a non-empty sub
Count(s, sub) == Len(Split(s, sub)) - 1

RECURSIVE TrimLeftSpace(_)
TrimLeftSpace(s) ==
    IF Len(s) > 0 /\ Ch(s, 1) = " " THEN TrimLeftSpace(Tail(s)) ELSE s

RECURSIVE TrimRightSpace(_)
TrimRightSpace(s) ==
    IF Len(s) > 0 /\ Ch(s, Len(s)) = " "
    THEN TrimRightSpace(SubSeq(s, 1, Len(s) - 1)) ELSE s

TrimSpace(s) == TrimRightSpace(TrimLeftSpace(s))

UpperCase == "ABCDEFGHIJKLMNOPQRSTUVWXYZ"
LowerCase == "abcdefghijklmnopqrstuvwxyz"

RECURSIVE ToLower(_)
ToLower(s) ==
    IF Len(s) = 0 THEN ""
    ELSE LET i == Index(UpperCase, Ch(s, 1))
         IN  (IF i = 0 THEN Ch(s, 1) ELSE Ch(LowerCase, i)) \o ToLower(Tail(s))

Digits == "0123456789"

IsDigits(s) == Len(s) > 0 /\ \A i \in 1..Len(s) : Contains(Digits, Ch(s, i))

RECURSIVE DecimalValue(_)
DecimalValue(s) ==
    IF Len(s) = 0 THEN 0
    ELSE 10 * DecimalValue(SubSeq(s, 1, Len(s) - 1)) + (Index(Digits, Ch(s, Len(s))) - 1)

\* strconv.Atoi / strconv.ParseInt(s, 10, 64) with the error dropped: the
\* value of an optionally signed decimal, 0 for anything else
Atoi(s) ==
    LET signed == Len(s) > 0 /\ Ch(s, 1) \in {"+", "-"}
        body   == IF signed THEN Tail(s) ELSE s
    IN  IF ~IsDigits(body) THEN 0
        ELSE IF signed /\ Ch(s, 1) = "-" THEN 0 - DecimalValue(body)
        ELSE DecimalValue(body)

\* the err of strconv.Atoi / strconv.ParseInt
AtoiFails(s) ==
    LET signed == Len(s) > 0 /\ Ch(s, 1) \in {"+", "-"}
    IN  ~IsDigits(IF signed THEN Tail(s) ELSE s)

\* s[lo:hi]: Go panics unless 0 <= lo <= hi <= len(s)
SliceOk(s, lo, hi) == 0 <= lo /\ lo <= hi /\ hi <= Len(s)
Slice(s, lo, hi) == SubSeq(s, lo + 1, hi)

(***************************************************************************)
(* Go maps with string keys: functions on the set of their keys.           *)
(***************************************************************************)
EmptyMap == [k \in {} |-> ""]

Put(m, k, v) == [x \in (DOMAIN m) \cup {k} |-> IF x = k THEN v ELSE m[x]]

Has(m, k) == k \in DOMAIN m

\* m[k] of a map[string]string: the zero value for a missing key
Get(m, k) == IF k \in DOMAIN m THEN m[k] ELSE ""


(***************************************************************************)
(* Results of a Go call: a value, or a run-time panic (an index or a slice *)
(* bound out of range) that unwinds the decode.                            *)
(***************************************************************************)
Ok(v) == [ok |-> TRUE, st |-> "ok", val |-> v]
Panic == [ok |-> FALSE, st |-> "panic", val |-> <<>>]
\* no call has been made yet
None == [ok |-> FALSE, st |-> "none", val |-> <<>>]

\* time.Time{} and time.Unix(0, ms*1e6), kept as the millisecond count
ZeroTime == [zero |-> TRUE, ms |-> 0]
UnixMilli(ms) == [zero |-> FALSE, ms |-> ms]

(***************************************************************************)
(* MessageType                                                             *)
(***************************************************************************)
UNSET == -1
WHISPER == 0
PRIVMSG == 1
CLEARCHAT == 2
ROOMSTATE == 3
USERNOTICE == 4
USERSTATE == 5
NOTICE == 6
JOIN == 7
PART == 8
RECONNECT == 9
NAMES == 10
PING == 11
PONG == 12

(***************************************************************************)
(* message.go: the older decoder.                                          *)
(***************************************************************************)

\* parseMessageType of message.go (a switch; the dispatch-table decoder has
\* a function of the same name, modelled below as parseMessageType)
parseMessageTypeSwitch(messageType) ==
    CASE messageType = "PRIVMSG"    -> PRIVMSG
      [] messageType = "WHISPER"    -> WHISPER
      [] messageType = "CLEARCHAT"  -> CLEARCHAT
      [] messageType = "NOTICE"     -> NOTICE
      [] messageType = "ROOMSTATE"  -> ROOMSTATE
      [] messageType = "USERSTATE"  -> USERSTATE
      [] messageType = "USERNOTICE" -> USERNOTICE
      [] OTHER                      -> UNSET

\* one iteration of parseTags' loop over the ';'-separated entries
RECURSIVE parseTagsLoop(_, _)
parseTagsLoop(entries, tags) ==
    IF Len(entries) = 0 THEN tags
    ELSE LET tag   == SplitN(Head(entries), "=", 2)
             value == IF Len(tag) > 1 THEN tag[2] ELSE ""
         IN  parseTagsLoop(Tail(entries), Put(tags, tag[1], value))

parseTags(tagsRaw) ==
    parseTagsLoop(Split(TrimPrefix(tagsRaw, "@"), ";"), EmptyMap)

\* parseMiddle's loop: acc is <<rawType, channel, username>>, i the Go index
RECURSIVE parseMiddleLoop(_, _, _)
parseMiddleLoop(tokens, i, acc) ==
    IF Len(tokens) = 0 THEN acc
    ELSE LET v == Head(tokens)
             next == IF i = 1 THEN [acc EXCEPT ![1] = v]
                     ELSE IF Contains(v, "!")
                          THEN [acc EXCEPT ![3] = SplitN(v, "!", 2)[1]]
                     ELSE IF Contains(v, "#")
                          THEN [acc EXCEPT ![2] = TrimPrefix(v, "#")]
                     ELSE acc
         IN  parseMiddleLoop(Tail(tokens), i + 1, next)

\* <<rawType, channel, username>>
parseMiddle(middle) == parseMiddleLoop(SplitN(middle, " ", 3), 0, <<"", "", "">>)

\* the padding loop of parseMessage:
\*   for i := 0; i < 3-len(split); i++ { split = append(split, "") }
\* whose bound is read again, from the grown slice, on every iteration
RECURSIVE padSplit(_, _)
padSplit(split, i) ==
    IF i < 3 - Len(split) THEN padSplit(Append(split, ""), i + 1) ELSE split

parseMessage(ln) ==
    IF ~HasPrefix(ln, "@")
    THEN Ok([RawMessage |-> [Type |-> UNSET, RawType |-> "", Raw |-> ln,
                             Tags |-> EmptyMap, Message |-> ln],
             Channel |-> "", Username |-> ""])
    ELSE LET split0 == SplitN(ln, " :", 3)
             split  == IF Len(split0) < 3 THEN padSplit(split0, 0) ELSE split0
         IN  IF Len(split) < 3
             THEN Panic   \* split[2]: index out of range
             ELSE LET mid == parseMiddle(split[2])
                  IN  Ok([RawMessage |-> [Type    |-> parseMessageTypeSwitch(mid[1]),
                                          RawType |-> mid[1],
                                          Raw     |-> ln,
                                          Tags    |-> parseTags(split[1]),
                                          Message |-> split[3]],
                          Channel  |-> mid[2],
                          Username |-> mid[3]])

\* (m *message) parseEmotes: the loop over the '/'-separated groups
RECURSIVE m_parseEmotesLoop(_, _, _)
m_parseEmotesLoop(groups, runes, emotes) ==
    IF Len(groups) = 0 THEN Ok(emotes)
    ELSE LET split == SplitN(Head(groups), ":", 2)
         IN  IF Len(split) < 2 THEN Panic   \* split[1]
             ELSE LET pos       == SplitN(split[2], ",", 2)
                      indexPair == SplitN(pos[1], "-", 2)
                  IN  IF Len(indexPair) < 2 THEN Panic   \* indexPair[1]
                      ELSE LET firstIndex == Atoi(indexPair[1])
                               lastIndex  == Atoi(indexPair[2])
                           IN  IF ~SliceOk(runes, firstIndex, lastIndex)
                               THEN Panic   \* runes[firstIndex:lastIndex]
                               ELSE m_parseEmotesLoop(Tail(groups), runes,
                                        Append(emotes,
                                               [Name  |-> Slice(runes, firstIndex, lastIndex),
                                                ID    |-> split[1],
                                                Count |-> Count(split[2], ",") + 1]))

m_parseEmotes(m) ==
    LET rawEmotes == Get(m.RawMessage.Tags, "emotes")
    IN  IF rawEmotes = "" THEN Ok(<<>>)
        ELSE m_parseEmotesLoop(Split(rawEmotes, "/"), m.RawMessage.Message, <<>>)

RECURSIVE m_parseBadgesLoop(_, _)
m_parseBadgesLoop(pairs, badges) ==
    IF Len(pairs) = 0 THEN badges
    ELSE LET badge == SplitN(Head(pairs), "/", 2)
         IN  IF Len(badge) < 2
             THEN m_parseBadgesLoop(Tail(pairs), badges)
             ELSE m_parseBadgesLoop(Tail(pairs), Put(badges, badge[1], Atoi(badge[2])))

m_parseBadges(m) ==
    IF ~Has(m.RawMessage.Tags, "badges") THEN EmptyMap
    ELSE m_parseBadgesLoop(Split(m.RawMessage.Tags["badges"], ","), EmptyMap)

m_parseUser(m) ==
    LET displayName == Get(m.RawMessage.Tags, "display-name")
    IN  [ID          |-> Get(m.RawMessage.Tags, "user-id"),
         Name        |-> IF m.Username = "" THEN ToLower(displayName) ELSE m.Username,
         DisplayName |-> displayName,
         Color       |-> Get(m.RawMessage.Tags, "color"),
         Badges      |-> m_parseBadges(m)]

\* the embedded structs are flattened: a channelMessage is the RawMessage's
\* fields and Channel, a roomMessage adds RoomID, a chatMessage ID and Time
m_parseChannelMessage(m) == m.RawMessage @@ [Channel |-> m.Channel]

m_parseRoomMessage(m) ==
    m_parseChannelMessage(m) @@ [RoomID |-> Get(m.RawMessage.Tags, "room-id")]

m_parseChatMessage(m) ==
    LET raw == Get(m.RawMessage.Tags, "tmi-sent-ts")
    IN  m_parseRoomMessage(m)
        @@ [ID   |-> Get(m.RawMessage.Tags, "id"),
            Time |-> IF AtoiFails(raw) THEN ZeroTime ELSE UnixMilli(Atoi(raw))]

\* the body is a CTCP ACTION: "\u0001ACTION ... \u0001"
IsAction(text) == HasPrefix(text, SOH \o "ACTION") /\ HasSuffix(text, SOH)

m_parseUserMessage(m) ==
    LET emotes == m_parseEmotes(m)
    IN  IF ~emotes.ok THEN Panic
        ELSE Ok([Emotes |-> emotes.val, Action |-> IsAction(m.RawMessage.Message)])

\* a decoder that returns (*User, *XxxMessage) yields [User, Msg]
parsePRIVMSGMessage(m) ==
    LET um == m_parseUserMessage(m)
    IN  IF ~um.ok THEN Panic
        ELSE LET pm   == m_parseChatMessage(m) @@ um.val
                 text == pm.Message
             IN  IF pm.Action /\ ~SliceOk(text, 8, Len(text) - 1)
                 THEN Panic   \* Message[8 : len(Message)-1]
                 ELSE LET stripped == IF pm.Action
                                      THEN [pm EXCEPT !.Message = Slice(text, 8, Len(text) - 1)]
                                      ELSE pm
                          bits == IF Has(m.RawMessage.Tags, "bits")
                                  THEN Atoi(m.RawMessage.Tags["bits"]) ELSE 0
                      IN  Ok([User |-> m_parseUser(m), Msg |-> stripped @@ [Bits |-> bits]])

parseWHISPERMessage(m) ==
    LET um == m_parseUserMessage(m)
    IN  IF ~um.ok THEN Panic
        ELSE LET wm   == m.RawMessage @@ um.val
                 text == wm.Message
             IN  IF wm.Action /\ ~SliceOk(text, 8, Len(text) - 1)
                 THEN Panic   \* Message[8 : len(Message)-1]
                 ELSE Ok([User |-> m_parseUser(m),
                          Msg  |-> IF wm.Action
                                   THEN [wm EXCEPT !.Message = Slice(text, 8, Len(text) - 1)]
                                   ELSE wm])

parseCLEARCHATMessage(m) ==
    LET cm == m_parseChatMessage(m)
    IN  Ok([cm EXCEPT !.Message = ""]
           @@ [TargetUserID   |-> Get(m.RawMessage.Tags, "target-user-id"),
               TargetUsername |-> cm.Message,
               BanDuration    |-> IF Has(m.RawMessage.Tags, "ban-duration")
                                  THEN Atoi(m.RawMessage.Tags["ban-duration"]) ELSE 0])

\* the room settings a ROOMSTATE line carries, in the order both decoders read them
stateTags == <<"emote-only", "followers-only", "r9k", "rituals", "slow", "subs-only">>

\* (m *ROOMSTATEMessage) addState
addState(tags, state, tag) ==
    IF ~Has(tags, tag) THEN state ELSE Put(state, tag, Atoi(tags[tag]))

\* (m *ROOMSTATEMessage) parseState
parseState(tags) ==
    addState(tags,
      addState(tags,
        addState(tags,
          addState(tags,
            addState(tags,
              addState(tags, EmptyMap, "emote-only"),
              "followers-only"),
            "r9k"),
          "rituals"),
        "slow"),
      "subs-only")

parseROOMSTATEMessage(m) ==
    Ok(m_parseRoomMessage(m)
       @@ [Language |-> Get(m.RawMessage.Tags, "broadcaster-lang"),
           State    |-> parseState(m.RawMessage.Tags)])

\* a value of MsgParams with its dynamic Go type
StringVal(s) == [t |-> "string", s |-> s, i |-> 0, b |-> FALSE]
IntVal(i) == [t |-> "int", s |-> "", i |-> i, b |-> FALSE]
BoolVal(b) == [t |-> "bool", s |-> "", i |-> 0, b |-> b]

\* (m *USERNOTICEMessage) paramToInt; rawValue.(string) holds, since the
\* five coerced keys are distinct
paramToInt(params, tag) ==
    IF ~Has(params, tag) THEN params
    ELSE Put(params, tag, IntVal(Atoi(params[tag].s)))

\* (m *USERNOTICEMessage) paramToBool
paramToBool(params, tag) ==
    IF ~Has(params, tag) THEN params
    ELSE Put(params, tag, BoolVal(params[tag].s = "1"))

\* (m *USERNOTICEMessage) parseMsgParams
parseMsgParams(tags) ==
    LET copied == [k \in {x \in DOMAIN tags : Contains(x, "msg-param")}
                     |-> StringVal(ReplaceAll(tags[k], "\\s", " "))]
    IN  paramToInt(
          paramToInt(
            paramToBool(
              paramToInt(
                paramToInt(copied, "msg-param-cumulative-months"),
                "msg-param-months"),
              "msg-param-should-share-streak"),
            "msg-param-streak-months"),
          "msg-param-viewerCount")

parseUSERNOTICEMessage(m) ==
    LET um   == m_parseUserMessage(m)
        tags == m.RawMessage.Tags
    IN  IF ~um.ok THEN Panic
        ELSE Ok([User |-> m_parseUser(m),
                 Msg  |-> m_parseChatMessage(m) @@ um.val
                          @@ [MsgID     |-> Get(tags, "msg-id"),
                              MsgParams |-> parseMsgParams(tags),
                              SystemMsg |-> IF ~Has(tags, "system-msg") THEN ""
                                            ELSE TrimSpace(ReplaceAll(
                                                   ReplaceAll(tags["system-msg"], "\\s", " "),
                                                   "\\n", ""))]])

parseUSERSTATEMessage(m) ==
    Ok([User |-> m_parseUser(m),
        Msg  |-> m_parseChannelMessage(m)
                 @@ [EmoteSets |-> IF Has(m.RawMessage.Tags, "emote-sets")
                                   THEN Split(m.RawMessage.Tags["emote-sets"], ",")
                                   ELSE <<>>]])

parseNOTICEMessage(m) ==
    Ok(m_parseChannelMessage(m) @@ [MsgID |-> Get(m.RawMessage.Tags, "msg-id")])

(***************************************************************************)
(* The framer of the dispatch-table decoder.  ParseMessage calls           *)
(* parseIRCMessage(line), which returns an *ircMessage                     *)
(*   {Raw, Tags, Source{Username}, Command, Params}                        *)
(* and an error; its code is not among the sources, so it is modelled from *)
(* the specification's Line Framer (4.1) and Tag Block Decoder (4.2).      *)
(***************************************************************************)

\* 4.2: the two-character sequence \s decodes to a space, \n is removed
unescapeTagValue(raw) == ReplaceAll(ReplaceAll(raw, "\\s", " "), "\\n", "")

RECURSIVE decodeTagEntries(_, _)
decodeTagEntries(entries, tags) ==
    IF Len(entries) = 0 THEN tags
    ELSE LET pair  == SplitN(Head(entries), "=", 2)
             value == IF Len(pair) > 1 THEN unescapeTagValue(pair[2]) ELSE ""
         IN  decodeTagEntries(Tail(entries), Put(tags, pair[1], value))

\* 4.2: strip the leading '@', split on ';', each entry on its first '='
decodeTagBlock(segment) ==
    IF segment = "" THEN EmptyMap
    ELSE decodeTagEntries(Split(TrimPrefix(segment, "@"), ";"), EmptyMap)

\* the whitespace-separated tokens of a segment
RECURSIVE Fields(_)
Fields(tokens) ==
    IF Len(tokens) = 0 THEN <<>>
    ELSE IF Head(tokens) = "" THEN Fields(Tail(tokens))
    ELSE <<Head(tokens)>> \o Fields(Tail(tokens))

\* 4.1.  A line that begins with '@' splits at " :" into the tag block, the
\* middle segment (source, command, short parameters) and the long
\* parameter; a line without tags is command and parameters, after its
\* ':'-introduced source prefix if it has one.  Params holds the short
\* parameters and then the long parameter, if the line has one.  The error
\* is modelled as reported for a line that has no command token; the
\* message is returned with it (ParseMessage hands it to parseRawMessage).
parseIRCMessage(ln) ==
    LET tagged  == HasPrefix(ln, "@")
        sourced == tagged \/ HasPrefix(ln, ":")
        segs    == IF tagged THEN Tail(SplitN(ln, " :", 3))
                   ELSE SplitN(TrimPrefix(ln, ":"), " :", 2)
        tokens  == IF Len(segs) = 0 THEN <<>> ELSE Fields(Split(segs[1], " "))
        source  == IF sourced /\ Len(tokens) > 0 THEN tokens[1] ELSE ""
        rest    == IF sourced /\ Len(tokens) > 0 THEN Tail(tokens) ELSE tokens
        command == IF Len(rest) > 0 THEN rest[1] ELSE ""
        shorts  == IF Len(rest) > 0 THEN Tail(rest) ELSE <<>>
    IN  [msg |-> [Raw     |-> ln,
                  Tags    |-> IF tagged THEN decodeTagBlock(SplitN(ln, " :", 3)[1])
                              ELSE EmptyMap,
                  Source  |-> [Username |-> IF Contains(source, "!")
                                            THEN SplitN(source, "!", 2)[1] ELSE ""],
                  Command |-> command,
                  Params  |-> shorts \o (IF Len(segs) > 1 THEN <<segs[2]>> ELSE <<>>)],
         err |-> command = ""]

(***************************************************************************)
(* The dispatch-table decoder.                                             *)
(***************************************************************************)

\* the table that init() builds: command token -> {Type, Parser}
InitialTypeMap ==
    [c \in {"WHISPER", "PRIVMSG", "CLEARCHAT", "ROOMSTATE", "USERNOTICE", "USERSTATE",
            "NOTICE", "JOIN", "PART", "RECONNECT", "353", "PING", "PONG"} |->
        CASE c = "WHISPER"    -> [Type |-> WHISPER,    Parser |-> "parseWhisperMessage"]
          [] c = "PRIVMSG"    -> [Type |-> PRIVMSG,    Parser |-> "parsePrivateMessage"]
          [] c = "CLEARCHAT"  -> [Type |-> CLEARCHAT,  Parser |-> "parseClearChatMessage"]
          [] c = "ROOMSTATE"  -> [Type |-> ROOMSTATE,  Parser |-> "parseRoomStateMessage"]
          [] c = "USERNOTICE" -> [Type |-> USERNOTICE, Parser |-> "parseUserNoticeMessage"]
          [] c = "USERSTATE"  -> [Type |-> USERSTATE,  Parser |-> "parseUserStateMessage"]
          [] c = "NOTICE"     -> [Type |-> NOTICE,     Parser |-> "parseNoticeMessage"]
          [] c = "JOIN"       -> [Type |-> JOIN,       Parser |-> "parseUserJoinMessage"]
          [] c = "PART"       -> [Type |-> PART,       Parser |-> "parseUserPartMessage"]
          [] c = "RECONNECT"  -> [Type |-> RECONNECT,  Parser |-> "parseReconnectMessage"]
          [] c = "353"        -> [Type |-> NAMES,      Parser |-> "parseNamesMessage"]
          [] c = "PING"       -> [Type |-> PING,       Parser |-> "parsePingMessage"]
          [] c = "PONG"       -> [Type |-> PONG,       Parser |-> "parsePongMessage"]]


VARIABLES
    messageTypeMap,   \* the package-level dispatch table
    wire,             \* the parts of the line the server sent
    line,             \* that line, as the transport hands it to the decoder
    irc,              \* ParseMessage: what parseIRCMessage returned for line
    msg,              \* ParseMessage: the Message returned, or the panic
    oldMsg,           \* message.go: what parseMessage returned for line
    oldRet,           \* message.go: what the decoder called on it returned
    calls             \* the ParseMessage calls that run concurrently, one per goroutine

vars == <<messageTypeMap, wire, line, irc, msg, oldMsg, oldRet, calls>>

parseMessageType(messageType) ==
    IF messageType \in DOMAIN messageTypeMap
    THEN messageTypeMap[messageType].Type
    ELSE UNSET

RECURSIVE parseBadgesLoop(_, _)
parseBadgesLoop(list, badges) ==
    IF Len(list) = 0 THEN Ok(badges)
    ELSE LET pair == SplitN(Head(list), "/", 2)
         IN  IF Len(pair) < 2 THEN Panic   \* pair[1]
             ELSE parseBadgesLoop(Tail(list), Put(badges, pair[1], Atoi(pair[2])))

parseBadges(rawBadges) == parseBadgesLoop(Split(rawBadges, ","), EmptyMap)

parseUser(message) ==
    LET rawBadges   == Get(message.Tags, "badges")
        badges      == IF rawBadges # "" THEN parseBadges(rawBadges) ELSE Ok(EmptyMap)
        displayName == Get(message.Tags, "display-name")
        name        == message.Source.Username
    IN  IF ~badges.ok THEN Panic
        ELSE Ok([ID          |-> Get(message.Tags, "user-id"),
                 Name        |-> IF name = "" /\ displayName # ""
                                 THEN Replace(ToLower(displayName), " ", "", 1)
                                 ELSE name,
                 DisplayName |-> displayName,
                 Color       |-> Get(message.Tags, "color"),
                 Badges      |-> badges.val])

\* the first parameter without a '#', and the ones after it, joined by " "
RECURSIVE rawMessageText(_)
rawMessageText(params) ==
    IF Len(params) = 0 THEN ""
    ELSE IF ~Contains(Head(params), "#") THEN Join(params, " ")
    ELSE rawMessageText(Tail(params))

parseRawMessage(message) ==
    Ok([GoType  |-> "RawMessage",
        Raw     |-> message.Raw,
        Type    |-> parseMessageType(message.Command),
        RawType |-> message.Command,
        Tags    |-> message.Tags,
        Message |-> rawMessageText(message.Params)])

parseTime(rawTime) ==
    IF rawTime = "" THEN ZeroTime ELSE UnixMilli(Atoi(rawTime))

RECURSIVE parseEmotesLoop(_, _, _)
parseEmotesLoop(groups, runes, emotes) ==
    IF Len(groups) = 0 THEN Ok(emotes)
    ELSE LET split == SplitN(Head(groups), ":", 2)
         IN  IF Len(split) < 2 THEN Panic   \* split[1]
             ELSE LET pairs == SplitN(split[2], ",", 2)
                      pair  == SplitN(pairs[1], "-", 2)
                  IN  IF Len(pair) < 2 THEN Panic   \* pair[1]
                      ELSE LET firstIndex == Atoi(pair[1])
                               lastIndex  == Atoi(pair[2])
                           IN  IF ~SliceOk(runes, firstIndex, lastIndex + 1)
                               THEN Panic   \* runes[firstIndex : lastIndex+1]
                               ELSE parseEmotesLoop(Tail(groups), runes,
                                        Append(emotes,
                                               [Name  |-> Slice(runes, firstIndex, lastIndex + 1),
                                                ID    |-> split[1],
                                                Count |-> Count(split[2], ",") + 1]))

parseEmotes(rawEmotes, message) ==
    IF rawEmotes = "" THEN Ok(<<>>)
    ELSE parseEmotesLoop(Split(rawEmotes, "/"), message, <<>>)

\* if len(message.Params) == 2 { x = message.Params[1] }: the body of a chat
\* line, the target of a CLEARCHAT
secondParam(message) == IF Len(message.Params) = 2 THEN message.Params[2] ELSE ""

\* strings.TrimPrefix(message.Params[0], "#"), read where Params is not empty
channelOf(message) == TrimPrefix(message.Params[1], "#")

parseWhisperMessage(message) ==
    LET user   == parseUser(message)
        body   == secondParam(message)
        emotes == parseEmotes(Get(message.Tags, "emotes"), body)
        me     == Contains(body, "/me")
    IN  IF ~user.ok \/ Len(message.Params) = 0 \/ ~emotes.ok   \* Params[0]
        THEN Panic
        ELSE Ok([GoType    |-> "WhisperMessage",
                 User      |-> user.val,
                 Raw       |-> message.Raw,
                 Type      |-> parseMessageType(message.Command),
                 RawType   |-> message.Command,
                 Tags      |-> message.Tags,
                 MessageID |-> Get(message.Tags, "message-id"),
                 ThreadID  |-> Get(message.Tags, "thread-id"),
                 Target    |-> message.Params[1],
                 Message   |-> IF me THEN TrimPrefix(body, "/me") ELSE body,
                 Emotes    |-> emotes.val,
                 Action    |-> me])

parsePrivateMessage(message) ==
    LET user   == parseUser(message)
        text   == secondParam(message)
        emotes == parseEmotes(Get(message.Tags, "emotes"), text)
        action == HasPrefix(text, SOH \o "ACTION") /\ HasSuffix(text, SOH)
    IN  IF \/ ~user.ok
           \/ Len(message.Params) = 0                          \* Params[0]
           \/ ~emotes.ok
           \/ (action /\ ~SliceOk(text, 8, Len(text) - 1))     \* text[8 : len(text)-1]
        THEN Panic
        ELSE Ok([GoType  |-> "PrivateMessage",
                 User    |-> user.val,
                 Raw     |-> message.Raw,
                 Type    |-> parseMessageType(message.Command),
                 RawType |-> message.Command,
                 Tags    |-> message.Tags,
                 RoomID  |-> Get(message.Tags, "room-id"),
                 ID      |-> Get(message.Tags, "id"),
                 Time    |-> parseTime(Get(message.Tags, "tmi-sent-ts")),
                 Channel |-> channelOf(message),
                 Message |-> IF action THEN Slice(text, 8, Len(text) - 1) ELSE text,
                 Emotes  |-> emotes.val,
                 Bits    |-> IF Has(message.Tags, "bits")
                             THEN Atoi(message.Tags["bits"]) ELSE 0,
                 Action  |-> action])

parseClearChatMessage(message) ==
    IF Len(message.Params) = 0 THEN Panic   \* Params[0]
    ELSE Ok([GoType         |-> "ClearChatMessage",
             Raw            |-> message.Raw,
             Type           |-> parseMessageType(message.Command),
             RawType        |-> message.Command,
             Tags           |-> message.Tags,
             RoomID         |-> Get(message.Tags, "room-id"),
             Time           |-> parseTime(Get(message.Tags, "tmi-sent-ts")),
             TargetUserID   |-> Get(message.Tags, "target-user-id"),
             Channel        |-> channelOf(message),
             BanDuration    |-> IF Has(message.Tags, "ban-duration")
                                THEN Atoi(message.Tags["ban-duration"]) ELSE 0,
             TargetUsername |-> secondParam(message)])

\* the loop of parseRoomStateMessage over stateTags
RECURSIVE roomStateLoop(_, _, _)
roomStateLoop(names, tags, state) ==
    IF Len(names) = 0 THEN state
    ELSE IF ~Has(tags, Head(names)) THEN roomStateLoop(Tail(names), tags, state)
    ELSE roomStateLoop(Tail(names), tags, Put(state, Head(names), Atoi(tags[Head(names)])))

parseRoomStateMessage(message) ==
    IF Len(message.Params) = 0 THEN Panic   \* Params[0]
    ELSE Ok([GoType  |-> "RoomStateMessage",
             Raw     |-> message.Raw,
             Type    |-> parseMessageType(message.Command),
             RawType |-> message.Command,
             Tags    |-> message.Tags,
             RoomID  |-> Get(message.Tags, "room-id"),
             Channel |-> channelOf(message),
             State   |-> roomStateLoop(stateTags, message.Tags, EmptyMap)])

\* MsgParams is a map[string]string: every value keeps the type string
parseUserNoticeMessage(message) ==
    LET user   == parseUser(message)
        body   == secondParam(message)
        emotes == parseEmotes(Get(message.Tags, "emotes"), body)
    IN  IF ~user.ok \/ Len(message.Params) = 0 \/ ~emotes.ok   \* Params[0]
        THEN Panic
        ELSE Ok([GoType    |-> "UserNoticeMessage",
                 User      |-> user.val,
                 Raw       |-> message.Raw,
                 Type      |-> parseMessageType(message.Command),
                 RawType   |-> message.Command,
                 Tags      |-> message.Tags,
                 RoomID    |-> Get(message.Tags, "room-id"),
                 ID        |-> Get(message.Tags, "id"),
                 Time      |-> parseTime(Get(message.Tags, "tmi-sent-ts")),
                 MsgID     |-> Get(message.Tags, "msg-id"),
                 MsgParams |-> [k \in {x \in DOMAIN message.Tags : Contains(x, "msg-param")}
                                  |-> StringVal(message.Tags[k])],
                 SystemMsg |-> Get(message.Tags, "system-msg"),
                 Message   |-> body,
                 Channel   |-> channelOf(message),
                 Emotes    |-> emotes.val])

parseUserStateMessage(message) ==
    LET user == parseUser(message)
    IN  IF ~user.ok \/ Len(message.Params) = 0   \* Params[0]
        THEN Panic
        ELSE Ok([GoType    |-> "UserStateMessage",
                 User      |-> user.val,
                 Raw       |-> message.Raw,
                 Type      |-> parseMessageType(message.Command),
                 RawType   |-> message.Command,
                 Tags      |-> message.Tags,
                 Channel   |-> channelOf(message),
                 EmoteSets |-> IF Has(message.Tags, "emote-sets")
                               THEN Split(message.Tags["emote-sets"], ",") ELSE <<>>])

parseNoticeMessage(message) ==
    IF Len(message.Params) = 0 THEN Panic   \* Params[0]
    ELSE Ok([GoType  |-> "NoticeMessage",
             Raw     |-> message.Raw,
             Type    |-> parseMessageType(message.Command),
             RawType |-> message.Command,
             Tags    |-> message.Tags,
             MsgID   |-> Get(message.Tags, "msg-id"),
             Message |-> secondParam(message),
             Channel |-> channelOf(message)])

parseUserJoinMessage(message) ==
    Ok([GoType  |-> "UserJoinMessage",
        Raw     |-> message.Raw,
        Type    |-> parseMessageType(message.Command),
        RawType |-> message.Command,
        User    |-> message.Source.Username,
        Channel |-> IF Len(message.Params) = 1
                    THEN TrimPrefix(message.Params[1], "#") ELSE ""])

parseUserPartMessage(message) ==
    Ok([GoType  |-> "UserPartMessage",
        Raw     |-> message.Raw,
        Type    |-> parseMessageType(message.Command),
        RawType |-> message.Command,
        User    |-> message.Source.Username,
        Channel |-> IF Len(message.Params) = 1
                    THEN TrimPrefix(message.Params[1], "#") ELSE ""])

parseReconnectMessage(message) ==
    Ok([GoType  |-> "ReconnectMessage",
        Raw     |-> message.Raw,
        Type    |-> parseMessageType(message.Command),
        RawType |-> message.Command])

parseNamesMessage(message) ==
    Ok([GoType  |-> "NamesMessage",
        Raw     |-> message.Raw,
        Type    |-> parseMessageType(message.Command),
        RawType |-> message.Command,
        Channel |-> IF Len(message.Params) = 4
                    THEN TrimPrefix(message.Params[3], "#") ELSE "",
        Users   |-> IF Len(message.Params) = 4
                    THEN Split(message.Params[4], " ") ELSE <<>>])

parsePingMessage(message) ==
    Ok([GoType  |-> "PingMessage",
        Raw     |-> message.Raw,
        Type    |-> parseMessageType(message.Command),
        RawType |-> message.Command,
        Message |-> IF Len(message.Params) = 1
                    THEN Split(message.Params[1], " ")[1] ELSE ""])

parsePongMessage(message) ==
    Ok([GoType  |-> "PongMessage",
        Raw     |-> message.Raw,
        Type    |-> parseMessageType(message.Command),
        RawType |-> message.Command,
        Message |-> IF Len(message.Params) = 2
                    THEN Split(message.Params[2], " ")[1] ELSE ""])

\* mt.Parser(ircMessage): the call through the table's function value
callParser(parser, message) ==
    CASE parser = "parseWhisperMessage"    -> parseWhisperMessage(message)
      [] parser = "parsePrivateMessage"    -> parsePrivateMessage(message)
      [] parser = "parseClearChatMessage"  -> parseClearChatMessage(message)
      [] parser = "parseRoomStateMessage"  -> parseRoomStateMessage(message)
      [] parser = "parseUserNoticeMessage" -> parseUserNoticeMessage(message)
      [] parser = "parseUserStateMessage"  -> parseUserStateMessage(message)
      [] parser = "parseNoticeMessage"     -> parseNoticeMessage(message)
      [] parser = "parseUserJoinMessage"   -> parseUserJoinMessage(message)
      [] parser = "parseUserPartMessage"   -> parseUserPartMessage(message)
      [] parser = "parseReconnectMessage"  -> parseReconnectMessage(message)
      [] parser = "parseNamesMessage"      -> parseNamesMessage(message)
      [] parser = "parsePingMessage"       -> parsePingMessage(message)
      [] parser = "parsePongMessage"       -> parsePongMessage(message)

\* ParseMessage(line), given what parseIRCMessage(line) returned
dispatch(framed) ==
    IF framed.err THEN parseRawMessage(framed.msg)
    ELSE IF framed.msg.Command \in DOMAIN messageTypeMap
         THEN callParser(messageTypeMap[framed.msg.Command].Parser, framed.msg)
    ELSE parseRawMessage(framed.msg)

(***************************************************************************)
(* The lines the server sends.  A line is kept with its parts (wire), so   *)
(* that what the decoder returns can be compared with what was sent.       *)
(***************************************************************************)

\* the most short parameters a line carries (a 353 line carries three)
MaxShort == 3
\* the most tags in a line's tag block
MaxTags == 2

RECURSIVE OrderedPick(_, _)
OrderedPick(pool, idx) ==
    IF idx = {} THEN <<>>
    ELSE LET i == CHOOSE x \in idx : \A y \in idx : x <= y
         IN  <<pool[i]>> \o OrderedPick(pool, idx \ {i})

\* the tag blocks of at most MaxTags entries of pool, in pool order
TagBlocks(pool) ==
    {OrderedPick(pool, idx) : idx \in {x \in SUBSET (1..Len(pool)) : Cardinality(x) <= MaxTags}}

ShortAt(i) == IF i = 1 THEN "#pajlada" ELSE IF i = 2 THEN "=" ELSE IF i = 3 THEN "#gempir" ELSE "x"

Shorts(n) == [i \in 1..n |-> ShortAt(i)]

UserSource == "ron!ronson@ron.tmi.twitch.tv"
ServerSource == "tmi.twitch.tv"

Wire(tagged, tags, source, cmd, shorts, hasLong, long) ==
    [tagged |-> tagged, tags |-> tags, source |-> source, cmd |-> cmd,
     shorts |-> shorts, hasLong |-> hasLong, long |-> long]

\* the line on the wire: "@tags :source COMMAND short... :long"
Render(w) ==
    Join((IF w.tagged THEN <<"@" \o Join(w.tags, ";")>> ELSE <<>>)
         \o (IF w.source # "" THEN <<":" \o w.source>> ELSE <<>>)
         \o (IF w.cmd # "" THEN <<w.cmd>> ELSE <<>>)
         \o w.shorts
         \o (IF w.hasLong THEN <<":" \o w.long>> ELSE <<>>),
         " ")

TableTokens ==
    {"WHISPER", "PRIVMSG", "CLEARCHAT", "ROOMSTATE", "USERNOTICE", "USERSTATE",
     "NOTICE", "JOIN", "PART", "RECONNECT", "353", "PING", "PONG"}

\* tokens the table does not hold: other commands, another case, a longer token
OtherTokens == {"CAP", "001", "privmsg", "Ping", "PRIVMSGS", "PIN"}

LongOptions == {<<FALSE, "">>, <<TRUE, "ampzyh">>, <<TRUE, "tmi.twitch.tv again">>}

\* every command, tagged and untagged, with and without a source, with
\* 0..MaxShort short parameters, with and without a long parameter
DispatchWires ==
    {Wire(sh[1], <<"room-id=1">>, sh[2], cmd, Shorts(n), lg[1], lg[2]) :
        sh \in {<<TRUE, ServerSource>>, <<TRUE, UserSource>>,
                <<FALSE, "">>, <<FALSE, ServerSource>>, <<FALSE, UserSource>>},
        cmd \in TableTokens \cup OtherTokens,
        n \in 0..MaxShort,
        lg \in LongOptions}

\* lines that stop before the command
PartialWires ==
    {Wire(TRUE, <<"foo=bar">>, "", "", <<>>, FALSE, ""),
     Wire(TRUE, <<"foo=bar">>, ServerSource, "", <<>>, FALSE, ""),
     Wire(TRUE, <<>>, ServerSource, "PING", <<>>, TRUE, "tmi.twitch.tv"),
     Wire(FALSE, <<>>, ServerSource, "", <<>>, FALSE, ""),
     Wire(FALSE, <<>>, "", "", <<>>, FALSE, "")}

Bodies ==
    {"", "Kappa hi", "a :b", "#x !y", "a /me b", "/me hi",
     SOH \o "ACTION" \o SOH,
     SOH \o "ACTION hi" \o SOH,
     SOH \o "ACTIONhi" \o SOH,
     SOH \o "ACTION hi"}

ChatTagPool ==
    <<"badges=subscriber/6,premium/1", "badges=subscriber/6,broken", "bits=5", "bits=x",
      "emotes=25:0-4", "emotes=25", "tmi-sent-ts=1490", "tmi-sent-ts=x",
      "display-name=Ron\\sSwan">>

\* chat lines: "@tags :ron!ron@... PRIVMSG #pajlada :body"
ChatWires ==
    {Wire(TRUE, tags, UserSource, cmd, <<"#pajlada">>, TRUE, body) :
        tags \in TagBlocks(ChatTagPool),
        cmd \in {"PRIVMSG", "WHISPER"},
        body \in Bodies}

ClearChatTagPool ==
    <<"ban-duration=1", "ban-duration=x", "ban-duration=", "ban-reason=testing\\sxd",
      "target-user-id=40910607", "room-id=11148817", "foo=a\\sb", "bar">>

ClearChatWires ==
    {Wire(TRUE, tags, ServerSource, "CLEARCHAT", <<"#pajlada">>, lg[1], lg[2]) :
        tags \in TagBlocks(ClearChatTagPool),
        lg \in {<<FALSE, "">>, <<TRUE, "ampzyh">>}}

RoomStateTagPool ==
    <<"emote-only=0", "followers-only=-1", "r9k=1", "rituals=x", "slow=10", "subs-only",
      "room-id=1", "broadcaster-lang=en">>

RoomStateWires ==
    {Wire(TRUE, tags, ServerSource, "ROOMSTATE", <<"#gempir">>, lg[1], lg[2]) :
        tags \in TagBlocks(RoomStateTagPool),
        lg \in {<<FALSE, "">>, <<TRUE, "x">>}}

UserNoticeTagPool ==
    <<"msg-param-cumulative-months=3", "msg-param-months=x",
      "msg-param-should-share-streak=1", "msg-param-should-share-streak=true",
      "msg-param-streak-months=", "msg-param-viewerCount=12",
      "msg-param-sub-plan-name=The\\sBest\\sPlan", "system-msg=\\sron\\ssubbed\\n\\s",
      "msg-id=resub", "login=ron", "emotes=25:0-1">>

UserNoticeWires ==
    {Wire(TRUE, tags, ServerSource, "USERNOTICE", <<"#pajlada">>, lg[1], lg[2]) :
        tags \in TagBlocks(UserNoticeTagPool),
        lg \in {<<FALSE, "">>, <<TRUE, "hi">>}}

UserStateTagPool ==
    <<"emote-sets=0,33", "display-name=Ron\\sSwan", "badges=moderator/1", "msg-id=slow_on">>

UserStateWires ==
    {Wire(TRUE, tags, ServerSource, cmd, <<"#pajlada">>, FALSE, "") :
        tags \in TagBlocks(UserStateTagPool),
        cmd \in {"USERSTATE", "NOTICE"}}

Wires ==
    DispatchWires \cup PartialWires \cup ChatWires \cup ClearChatWires
    \cup RoomStateWires \cup UserNoticeWires \cup UserStateWires

(***************************************************************************)
(* The state machine.  init() has built the table; the transport has read  *)
(* one line.  A process links one generation of the decoder: the line is   *)
(* decoded by ParseMessage, or by parseMessage and then the decoder of     *)
(* message.go that belongs to the Type parseMessage found.                 *)
(***************************************************************************)
Init ==
    /\ messageTypeMap = InitialTypeMap
    /\ wire \in Wires
    /\ line = Render(wire)
    /\ irc = None
    /\ msg = None
    /\ oldMsg = None
    /\ oldRet = None
    /\ calls = <<>>

Fresh == msg.st = "none" /\ oldMsg.st = "none"

\* ParseMessage(line)
ParseMessage ==
    /\ Fresh
    /\ LET framed == parseIRCMessage(line)
       IN  /\ irc' = Ok(framed)
           /\ msg' = dispatch(framed)
    /\ UNCHANGED <<messageTypeMap, wire, line, oldMsg, oldRet, calls>>

\* parseMessage(line)
ParseLine ==
    /\ Fresh
    /\ oldMsg' = parseMessage(line)
    /\ UNCHANGED <<messageTypeMap, wire, line, irc, msg, oldRet, calls>>

\* the decoder of message.go for lines of Type typ has not run yet
Pending(typ) ==
    /\ oldMsg.ok
    /\ oldRet.st = "none"
    /\ oldMsg.val.RawMessage.Type = typ

Decoded(ret) ==
    /\ oldRet' = ret
    /\ UNCHANGED <<messageTypeMap, wire, line, irc, msg, oldMsg, calls>>

DecodePRIVMSG == Pending(PRIVMSG) /\ Decoded(parsePRIVMSGMessage(oldMsg.val))

DecodeWHISPER == Pending(WHISPER) /\ Decoded(parseWHISPERMessage(oldMsg.val))

DecodeCLEARCHAT == Pending(CLEARCHAT) /\ Decoded(parseCLEARCHATMessage(oldMsg.val))

DecodeROOMSTATE == Pending(ROOMSTATE) /\ Decoded(parseROOMSTATEMessage(oldMsg.val))

DecodeUSERNOTICE == Pending(USERNOTICE) /\ Decoded(parseUSERNOTICEMessage(oldMsg.val))

DecodeUSERSTATE == Pending(USERSTATE) /\ Decoded(parseUSERSTATEMessage(oldMsg.val))

DecodeNOTICE == Pending(NOTICE) /\ Decoded(parseNOTICEMessage(oldMsg.val))

Next ==
    \/ ParseMessage
    \/ ParseLine
    \/ DecodePRIVMSG
    \/ DecodeWHISPER
    \/ DecodeCLEARCHAT
    \/ DecodeROOMSTATE
    \/ DecodeUSERNOTICE
    \/ DecodeUSERSTATE
    \/ DecodeNOTICE

Spec == Init /\ [][Next]_vars

(***************************************************************************)
(* Concurrent callers.  ParseMessage holds no lock: goroutines that decode *)
(* lines at the same time interleave at their reads of the package-level   *)
(* messageTypeMap.  A call frames its line, looks its command up, and then *)
(* runs the decoder found (which reads the table again, in                 *)
(* parseMessageType) or the fallback.  A panic that no caller recovers     *)
(* ends the process, and with it every other call.                         *)
(***************************************************************************)

\* the number of goroutines that call ParseMessage at the same time
NumCalls == 2

Procs == 1..NumCalls

\* the lines the callers decode: every path of ParseMessage is among them
ConcLines ==
    {"PING :tmi.twitch.tv",
     ":tmi.twitch.tv RECONNECT",
     ":tmi.twitch.tv CAP * ACK :twitch.tv/tags",
     "@slow=10 :tmi.twitch.tv ROOMSTATE #gempir",
     "@badges=subscriber/6 :ron!ronson@ron.tmi.twitch.tv PRIVMSG #pajlada :Kappa hi",
     "@room-id=1 :tmi.twitch.tv USERSTATE",
     "@foo=bar"}

\* a lookup that remembers the tokens it did not find, as entries of the
\* fallback
lookupTypeCaching(table, token) ==
    [table |-> IF Has(table, token) THEN table
               ELSE Put(table, token, [Type |-> UNSET, Parser |-> "parseRawMessage"]),
     ok    |-> Has(table, token),
     mt    |-> IF Has(table, token) THEN table[token]
               ELSE [Type |-> 0, Parser |-> "nil"]]

\* mt, ok := messageTypeMap[token]: the comma-ok read of a map yields the
\* entry, or the zero messageTypeDescription, and leaves the map as it is
lookupType(table, token) ==
    [table |-> table,
     ok    |-> Has(table, token),
     mt    |-> IF Has(table, token) THEN table[token]
               ELSE [Type |-> 0, Parser |-> "nil"]]

newCall(ln) == [pc |-> "frame", line |-> ln, irc |-> None, mt |-> None, ret |-> None]

ConcInit ==
    /\ messageTypeMap = InitialTypeMap
    /\ wire = Wire(FALSE, <<>>, "", "", <<>>, FALSE, "")
    /\ line = ""
    /\ irc = None
    /\ msg = None
    /\ oldMsg = None
    /\ oldRet = None
    /\ calls \in [Procs -> {newCall(ln) : ln \in ConcLines}]

\* no goroutine has panicked: the process is alive
Running == \A p \in Procs : calls[p].pc # "panic"

\* ircMessage, err := parseIRCMessage(line)
CallFrame(p) ==
    /\ Running
    /\ calls[p].pc = "frame"
    /\ LET framed == parseIRCMessage(calls[p].line)
       IN  calls' = [calls EXCEPT ![p].irc = Ok(framed),
                                  ![p].pc  = IF framed.err THEN "raw" ELSE "lookup"]
    /\ UNCHANGED <<messageTypeMap, wire, line, irc, msg, oldMsg, oldRet>>

\* if mt, ok := messageTypeMap[ircMessage.Command]; ok
CallLookup(p) ==
    /\ Running
    /\ calls[p].pc = "lookup"
    /\ LET found == lookupType(messageTypeMap, calls[p].irc.val.msg.Command)
       IN  /\ messageTypeMap' = found.table
           /\ calls' = [calls EXCEPT ![p].mt = Ok(found.mt),
                                      ![p].pc = IF found.ok THEN "call" ELSE "raw"]
    /\ UNCHANGED <<wire, line, irc, msg, oldMsg, oldRet>>

\* return mt.Parser(ircMessage)  /  return parseRawMessage(ircMessage)
CallDecode(p) ==
    /\ Running
    /\ calls[p].pc \in {"call", "raw"}
    /\ LET ret == IF calls[p].pc = "call"
                  THEN callParser(calls[p].mt.val.Parser, calls[p].irc.val.msg)
                  ELSE parseRawMessage(calls[p].irc.val.msg)
       IN  calls' = [calls EXCEPT ![p].ret = ret,
                                  ![p].pc  = IF ret.ok THEN "done" ELSE "panic"]
    /\ UNCHANGED <<messageTypeMap, wire, line, irc, msg, oldMsg, oldRet>>

ConcNext ==
    \/ \E p \in Procs : CallFrame(p)
    \/ \E p \in Procs : CallLookup(p)
    \/ \E p \in Procs : CallDecode(p)

ConcSpec == ConcInit /\ [][ConcNext]_vars

(***************************************************************************)
(* What was sent, read off the parts of the line (not off the decoders).   *)
(***************************************************************************)
SentTags(w) == IF w.tagged THEN w.tags ELSE <<>>

SentName(entry) ==
    IF Contains(entry, "=") THEN SubSeq(entry, 1, Index(entry, "=") - 1) ELSE entry

SentRaw(entry) ==
    IF Contains(entry, "=") THEN SubSeq(entry, Index(entry, "=") + 1, Len(entry)) ELSE ""

SentHas(w, name) == \E i \in 1..Len(SentTags(w)) : SentName(SentTags(w)[i]) = name

\* the raw value of the last tag of that name, "" when the line has none
SentValue(w, name) ==
    IF ~SentHas(w, name) THEN ""
    ELSE LET i == CHOOSE x \in 1..Len(SentTags(w)) :
                      /\ SentName(SentTags(w)[x]) = name
                      /\ \A y \in 1..Len(SentTags(w)) :
                            SentName(SentTags(w)[y]) = name => y <= x
         IN  SentRaw(SentTags(w)[i])

\* the number of parameters of the line, the long one included
SentParams(w) == Len(w.shorts) + (IF w.hasLong THEN 1 ELSE 0)

SentNick(w) == SubSeq(w.source, 1, Index(w.source, "!") - 1)

ActionBody(b) == HasPrefix(b, SOH \o "ACTION") /\ HasSuffix(b, SOH)

\* every pair of a badges value is name/level
BadgesWellFormed(v) ==
    v = "" \/ \A i \in 1..Len(Split(v, ",")) : Contains(Split(v, ",")[i], "/")

\* every group of an emotes value is id:first-last,... with
\* 0 <= first <= last < the length of the body
EmotesFit(v, body) ==
    v = "" \/ \A i \in 1..Len(Split(v, "/")) :
        LET g == Split(v, "/")[i]
            r == SplitN(SplitN(SplitN(g, ":", 2)[2], ",", 2)[1], "-", 2)
        IN  /\ Contains(g, ":")
            /\ Len(r) = 2 /\ IsDigits(r[1]) /\ IsDigits(r[2])
            /\ Atoi(r[1]) <= Atoi(r[2]) /\ Atoi(r[2]) < Len(body)

\* a tag value with its escapes undone: "\s" is a space, "\n" is dropped
Unescaped(v) == ReplaceAll(ReplaceAll(v, "\\s", " "), "\\n", "")

\* the parameters of the line in order, the long one last
SentParamList(w) == w.shorts \o (IF w.hasLong THEN <<w.long>> ELSE <<>>)

\* neither a badges nor an emotes tag: the sub-decoders have nothing to read
NoBadgesNoEmotes(w) == ~SentHas(w, "badges") /\ ~SentHas(w, "emotes")

(***************************************************************************)
(* The claims.                                                             *)
(***************************************************************************)

\* the kind the dispatch table of 4.3 gives a command token
KindOfToken(token) ==
    CASE token = "WHISPER"    -> WHISPER
      [] token = "PRIVMSG"    -> PRIVMSG
      [] token = "CLEARCHAT"  -> CLEARCHAT
      [] token = "ROOMSTATE"  -> ROOMSTATE
      [] token = "USERNOTICE" -> USERNOTICE
      [] token = "USERSTATE"  -> USERSTATE
      [] token = "NOTICE"     -> NOTICE
      [] token = "JOIN"       -> JOIN
      [] token = "PART"       -> PART
      [] token = "RECONNECT"  -> RECONNECT
      [] token = "353"        -> NAMES
      [] token = "PING"       -> PING
      [] token = "PONG"       -> PONG
      [] OTHER                -> UNSET

TypeIsTableKind(token, r) ==
    /\ r.Type = KindOfToken(token)
    /\ r.GoType = "RawMessage" => r.Type = UNSET

\* C1: for every command token ParseMessage returns a record whose Type is
\* the kind the dispatch table gives the token when it is one of the 13
\* entries, matched exactly and case-sensitively, and UNSET for every other
\* token; a RawMessage is never returned with a Type other than UNSET.
C1_TypeIsTableKind ==
    msg.st # "none" =>
        msg.st = "ok" /\ TypeIsTableKind(irc.val.msg.Command, msg.val)

\* Every record ParseMessage does return has the Type of the table.
TypeIsTableKindWhenReturned ==
    msg.st = "ok" => TypeIsTableKind(irc.val.msg.Command, msg.val)

\* a line "@<tags> :<nick>!<user>@<host> PRIVMSG #<chan> :<body>" whose body
\* is no ACTION
PrivmsgLine(w) ==
    /\ w.tagged /\ w.cmd = "PRIVMSG"
    /\ Contains(w.source, "!")
    /\ Len(w.shorts) = 1 /\ HasPrefix(w.shorts[1], "#")
    /\ w.hasLong /\ ~ActionBody(w.long)

\* whichever decoder has run has produced kind, channel, nick and body
PrivmsgDecoded(w) ==
    /\ msg.st # "none" =>
          /\ msg.st = "ok"
          /\ msg.val.Type = PRIVMSG
          /\ msg.val.Channel = Tail(w.shorts[1])
          /\ msg.val.User.Name = SentNick(w)
          /\ msg.val.Message = w.long
    /\ oldMsg.st # "none" =>
          /\ oldMsg.st = "ok"
          /\ oldMsg.val.RawMessage.Type = PRIVMSG
          /\ oldMsg.val.Channel = Tail(w.shorts[1])
          /\ oldMsg.val.Username = SentNick(w)
          /\ oldMsg.val.RawMessage.Message = w.long
    /\ oldRet.st # "none" =>
          /\ oldRet.st = "ok"
          /\ oldRet.val.Msg.Type = PRIVMSG
          /\ oldRet.val.Msg.Channel = Tail(w.shorts[1])
          /\ oldRet.val.User.Name = SentNick(w)
          /\ oldRet.val.Msg.Message = w.long

\* C2: every tagged PRIVMSG line whose body is no ACTION decodes to kind
\* PrivateMessage with the channel without its '#', the user name that is
\* the text before '!', and the body unchanged, also when the body holds
\* " :", '#' or '!'.
C2_PrivmsgFields == PrivmsgLine(wire) => PrivmsgDecoded(wire)

\* The same, for the lines whose badges are name/level pairs and whose
\* emote ranges lie inside the body.
PrivmsgFieldsWhenTagsFit ==
    ( /\ PrivmsgLine(wire)
      /\ BadgesWellFormed(SentValue(wire, "badges"))
      /\ EmotesFit(SentValue(wire, "emotes"), wire.long) )
    => PrivmsgDecoded(wire)

ClearChatFields(w, r) ==
    /\ r.Channel = TrimPrefix(SentParamList(w)[1], "#")
    /\ r.TargetUsername = (IF w.hasLong THEN w.long ELSE "")
    /\ r.TargetUserID = SentValue(w, "target-user-id")
    /\ r.BanDuration = Atoi(SentValue(w, "ban-duration"))

\* C3: the record decoded from a CLEARCHAT line (one whose first parameter
\* is a short one) has the channel equal to the first parameter without '#',
\* targetUsername equal to the long parameter when the line has one and
\* empty otherwise, targetUserID equal to the target-user-id tag, and
\* banDuration equal to the integer value of the ban-duration tag, 0 when
\* the tag is absent or not numeric.
C3_ClearChatFields ==
    (wire.cmd = "CLEARCHAT" /\ Len(wire.shorts) > 0) =>
        /\ msg.st # "none" => msg.st = "ok" /\ ClearChatFields(wire, msg.val)
        /\ (oldRet.st # "none" /\ oldMsg.val.RawMessage.Type = CLEARCHAT) =>
              oldRet.st = "ok" /\ ClearChatFields(wire, oldRet.val)

\* The same, for the lines "CLEARCHAT <channel> [:<target>]" with the
\* channel as the only short parameter.
ClearChatFieldsWhenOneShort ==
    (wire.cmd = "CLEARCHAT" /\ Len(wire.shorts) = 1) =>
        /\ msg.st # "none" => msg.st = "ok" /\ ClearChatFields(wire, msg.val)
        /\ (oldRet.st # "none" /\ oldMsg.val.RawMessage.Type = CLEARCHAT) =>
              oldRet.st = "ok" /\ ClearChatFields(wire, oldRet.val)

RoomSettings == {"emote-only", "followers-only", "r9k", "rituals", "slow", "subs-only"}

\* state is exactly the room settings the line carries, as integers
RoomStateIs(w, state) ==
    /\ DOMAIN state = {t \in RoomSettings : SentHas(w, t)}
    /\ \A t \in DOMAIN state : state[t] = Atoi(SentValue(w, t))

\* C4: for every ROOMSTATE line the State of the decoded record has exactly
\* the keys among the six room settings that the line's tag block carries,
\* each with the integer value of its tag, 0 when not numeric; also for a
\* line with no long parameter.
C4_RoomStateKeys ==
    wire.cmd = "ROOMSTATE" =>
        /\ msg.st # "none" => msg.st = "ok" /\ RoomStateIs(wire, msg.val.State)
        /\ (oldRet.st # "none" /\ oldMsg.val.RawMessage.Type = ROOMSTATE) =>
              oldRet.st = "ok" /\ RoomStateIs(wire, oldRet.val.State)

\* The same, for the ROOMSTATE lines that have a parameter.
RoomStateKeysWhenParams ==
    (wire.cmd = "ROOMSTATE" /\ SentParams(wire) > 0) =>
        /\ msg.st # "none" => msg.st = "ok" /\ RoomStateIs(wire, msg.val.State)
        /\ (oldRet.st # "none" /\ oldMsg.val.RawMessage.Type = ROOMSTATE) =>
              oldRet.st = "ok" /\ RoomStateIs(wire, oldRet.val.State)

\* tags is the map of the tags sent, every value unescaped, a tag without
\* '=' with the empty value
TagsAre(w, tags) ==
    /\ DOMAIN tags = {SentName(w.tags[i]) : i \in 1..Len(w.tags)}
    /\ \A name \in DOMAIN tags : tags[name] = Unescaped(SentValue(w, name))

\* C5: the tag decoder puts every tag of the tag block into the Tags map
\* with its value unescaped: every "\s" of a value is one space and every
\* "\n" is removed, so that foo=a\sb is stored as foo -> "a b"; a tag
\* without '=' has the empty value.
C5_TagsUnescaped ==
    (wire.tagged /\ Len(wire.tags) > 0 /\ oldMsg.st = "ok") =>
        TagsAre(wire, oldMsg.val.RawMessage.Tags)

\* C6: for every command of the dispatch table and every number of
\* parameters, zero included, and also when the framer reports an error,
\* ParseMessage returns a record and never fails.
C6_NeverFails ==
    (msg.st # "none" /\ NoBadgesNoEmotes(wire) /\ ~ActionBody(wire.long)) =>
        msg.st = "ok"

\* the payload of a PING line: the long parameter up to its first space
PingPayload(w) == SplitN(w.long, " ", 2)[1]

\* C7: an untagged line "PING :<payload>" decodes to kind Ping with the
\* payload up to its first space, and no untagged line whose command token
\* is in the dispatch table is classified UNSET.
C7_UntaggedDecoded ==
    ~wire.tagged =>
        /\ (wire.cmd = "PING" /\ wire.source = "" /\ wire.shorts = <<>> /\ wire.hasLong) =>
              /\ msg.st # "none" =>
                    /\ msg.st = "ok" /\ msg.val.Type = PING
                    /\ msg.val.Message = PingPayload(wire)
              /\ oldMsg.st # "none" =>
                    /\ oldMsg.st = "ok" /\ oldMsg.val.RawMessage.Type = PING
                    /\ oldMsg.val.RawMessage.Message = PingPayload(wire)
        /\ wire.cmd \in TableTokens =>
              /\ msg.st = "ok" => msg.val.Type # UNSET
              /\ oldMsg.st = "ok" => oldMsg.val.RawMessage.Type # UNSET

\* an ACTION body without its two markers, "\x01ACTION" and "\x01"
StripMarkers(b) == SubSeq(b, 8, Len(b) - 1)

\* action and text are what the body asks for; the blank that separates
\* ACTION from the text may go with the marker
ActionTextIs(body, action, text) ==
    IF ActionBody(body)
    THEN action /\ text \in {StripMarkers(body), TrimPrefix(StripMarkers(body), " ")}
    ELSE ~action /\ text = body

\* a chat line "@<tags> :<source> <cmd> <target> :<body>"
ChatLine(w, cmd) ==
    /\ w.tagged /\ w.cmd = cmd /\ Len(w.shorts) = 1 /\ w.hasLong

\* C8: for every PRIVMSG body that starts with \x01ACTION and ends with
\* \x01, the shortest one "\x01ACTION\x01" and those with no space after
\* ACTION included, the decoder sets Action and the text is the body
\* without the two markers, and it does not fail; for every other body the
\* text is unchanged and Action is false.
C8_ActionStripped ==
    (ChatLine(wire, "PRIVMSG") /\ NoBadgesNoEmotes(wire)) =>
        /\ msg.st # "none" =>
              /\ msg.st = "ok"
              /\ ActionTextIs(wire.long, msg.val.Action, msg.val.Message)
        /\ oldRet.st # "none" =>
              /\ oldRet.st = "ok"
              /\ ActionTextIs(wire.long, oldRet.val.Msg.Action, oldRet.val.Msg.Message)

\* C9: a WHISPER body that does not start with \x01ACTION and end with
\* \x01, for example one that holds "/me" somewhere, is delivered unchanged
\* with Action false (Action is true only for a body of that form).
C9_WhisperAction ==
    (ChatLine(wire, "WHISPER") /\ NoBadgesNoEmotes(wire) /\ ~ActionBody(wire.long)) =>
        /\ msg.st # "none" =>
              /\ msg.st = "ok"
              /\ ActionTextIs(wire.long, msg.val.Action, msg.val.Message)
        /\ oldRet.st # "none" =>
              /\ oldRet.st = "ok"
              /\ ActionTextIs(wire.long, oldRet.val.Msg.Action, oldRet.val.Msg.Message)

IntParams ==
    {"msg-param-cumulative-months", "msg-param-months",
     "msg-param-streak-months", "msg-param-viewerCount"}

\* the value MsgParams is to hold for key, v its value with "\s" replaced
CoercedParam(key, v) ==
    IF key \in IntParams THEN IntVal(Atoi(v))
    ELSE IF key = "msg-param-should-share-streak" THEN BoolVal(v = "1")
    ELSE StringVal(v)

UserNoticeFields(w, r) ==
    /\ DOMAIN r.MsgParams =
          {SentName(w.tags[i]) : i \in {x \in 1..Len(w.tags) :
                                           Contains(SentName(w.tags[x]), "msg-param")}}
    /\ \A key \in DOMAIN r.MsgParams :
          r.MsgParams[key] = CoercedParam(key, ReplaceAll(SentValue(w, key), "\\s", " "))
    /\ r.SystemMsg = TrimSpace(Unescaped(SentValue(w, "system-msg")))

\* C10: for every USERNOTICE line MsgParams holds exactly the tags whose
\* name contains "msg-param", every value with "\s" replaced by a space;
\* the four month and viewer counts are integers (0 when not numeric),
\* msg-param-should-share-streak is a boolean that is true exactly for the
\* raw value "1", every other key is a string; SystemMsg is the system-msg
\* tag with "\s" replaced, "\n" removed and the surrounding space trimmed.
C10_MsgParamsCoerced ==
    (wire.tagged /\ wire.cmd = "USERNOTICE" /\ Len(wire.shorts) = 1
       /\ NoBadgesNoEmotes(wire)) =>
        /\ msg.st # "none" => msg.st = "ok" /\ UserNoticeFields(wire, msg.val)
        /\ oldRet.st # "none" => oldRet.st = "ok" /\ UserNoticeFields(wire, oldRet.val.Msg)

\* message.go's decoder alone does what C10 says.
MsgParamsCoercedByMessageGo ==
    (wire.tagged /\ wire.cmd = "USERNOTICE" /\ Len(wire.shorts) = 1
       /\ NoBadgesNoEmotes(wire)) =>
        (oldRet.st # "none" => oldRet.st = "ok" /\ UserNoticeFields(wire, oldRet.val.Msg))

\* C11: for every line that begins with '@', whatever the number of " :"
\* separators in it, the framer of message.go returns a framed message
\* without failing, a missing segment being the empty string; a line with
\* no " :" at all, such as "@foo=bar", has an empty middle segment and an
\* empty long parameter.
C11_ThreeSegments ==
    (wire.tagged /\ oldMsg.st # "none") =>
        /\ oldMsg.st = "ok"
        /\ ~Contains(line, " :") =>
              /\ oldMsg.val.RawMessage.RawType = ""
              /\ oldMsg.val.RawMessage.Message = ""

\* the mapping a badges value stands for: one entry for each pair
\* name/level, the pairs without '/' left out
BadgesAre(v, badges) ==
    LET pairs == Split(v, ",")
        good  == {i \in 1..Len(pairs) : Contains(pairs[i], "/")}
        last(name) == CHOOSE i \in good :
                          /\ SplitN(pairs[i], "/", 2)[1] = name
                          /\ \A j \in good : SplitN(pairs[j], "/", 2)[1] = name => j <= i
    IN  /\ DOMAIN badges = {SplitN(pairs[i], "/", 2)[1] : i \in good}
        /\ \A name \in DOMAIN badges :
              badges[name] = Atoi(SplitN(pairs[last(name)], "/", 2)[2])

\* a line whose decoder decodes a user, with a badges tag and nothing else
\* a sub-decoder could stumble on
BadgesLine(w) ==
    /\ w.tagged /\ w.cmd \in {"PRIVMSG", "WHISPER", "USERSTATE"}
    /\ Len(w.shorts) = 1
    /\ SentHas(w, "badges") /\ ~SentHas(w, "emotes") /\ ~ActionBody(w.long)

\* C12: for every badges tag value the badge decoder returns a mapping
\* with one entry name -> level for each comma-separated pair name/level
\* and skips every pair without '/', without failing and without dropping
\* the well-formed pairs of the list.
C12_BadgesSkipMalformed ==
    BadgesLine(wire) =>
        /\ msg.st # "none" =>
              /\ msg.st = "ok"
              /\ BadgesAre(SentValue(wire, "badges"), msg.val.User.Badges)
        /\ oldRet.st # "none" =>
              /\ oldRet.st = "ok"
              /\ BadgesAre(SentValue(wire, "badges"), oldRet.val.User.Badges)

\* message.go's badge decoder alone does what C12 says.
BadgesSkippedByMessageGo ==
    BadgesLine(wire) =>
        (oldRet.st # "none" =>
            /\ oldRet.st = "ok"
            /\ BadgesAre(SentValue(wire, "badges"), oldRet.val.User.Badges))

\* a chat line with an emotes tag, well-formed or not, and nothing else a
\* sub-decoder could stumble on
EmotesLine(w) ==
    /\ ChatLine(w, "PRIVMSG")
    /\ SentHas(w, "emotes") /\ ~SentHas(w, "badges") /\ ~ActionBody(w.long)

\* C13: for every emotes tag value and every body the emote decoder
\* returns a list without failing: a group without ':', a range without
\* '-', offsets that are no numbers or lie at or beyond the length of the
\* body never make the decode fail or read outside the body.
C13_EmotesNeverFail ==
    EmotesLine(wire) =>
        /\ msg.st # "none" => msg.st = "ok"
        /\ oldRet.st # "none" => oldRet.st = "ok"

\* the instant a tmi-sent-ts value stands for
TimeOf(v) == IF IsDigits(v) THEN UnixMilli(DecimalValue(v)) ELSE ZeroTime

\* a chat line whose only tags of interest are the timestamp's
TimeLine(w) ==
    /\ ChatLine(w, "PRIVMSG") /\ NoBadgesNoEmotes(w) /\ ~ActionBody(w.long)

\* C14: for every value of the tmi-sent-ts tag the decoded Time is the
\* instant that many milliseconds after the epoch when the value is a
\* decimal integer, and the zero time, as for an absent tag, when the value
\* is empty or not numeric; the decode does not fail.
C14_TimeOrZero ==
    TimeLine(wire) =>
        /\ msg.st # "none" =>
              msg.st = "ok" /\ msg.val.Time = TimeOf(SentValue(wire, "tmi-sent-ts"))
        /\ oldRet.st # "none" =>
              oldRet.st = "ok" /\ oldRet.val.Msg.Time = TimeOf(SentValue(wire, "tmi-sent-ts"))

\* message.go's parseChatMessage alone does what C14 says.
TimeOrZeroByMessageGo ==
    TimeLine(wire) =>
        (oldRet.st # "none" =>
            oldRet.st = "ok" /\ oldRet.val.Msg.Time = TimeOf(SentValue(wire, "tmi-sent-ts")))

\* C15: in every state that concurrent ParseMessage calls can reach, in
\* any interleaving, the dispatch table holds exactly its 13 initial
\* entries, and the record a call returns is the record ParseMessage
\* returns for that line when it is decoded alone; so two calls on the same
\* line return equal records.
C15_TableImmutable ==
    /\ messageTypeMap = InitialTypeMap
    /\ Cardinality(DOMAIN messageTypeMap) = Cardinality(TableTokens)
    /\ \A p \in Procs :
          calls[p].pc = "done" =>
              calls[p].ret = dispatch(parseIRCMessage(calls[p].line))
    /\ \A p, q \in Procs :
          (calls[p].pc = "done" /\ calls[q].pc = "done" /\ calls[p].line = calls[q].line)
              => calls[p].ret = calls[q].ret

\* two calls on different lines have both returned, one of them a
\* PrivateMessage
C15_Witness ==
    /\ \A p \in Procs : calls[p].pc = "done" /\ calls[p].ret.ok
    /\ calls[1].line # calls[2].line
    /\ calls[1].ret.val.GoType = "PrivateMessage"

====
